---- MODULE Spec2Model ----
(***************************************************************************)
(* distributeFlexBoxLayout (flexBoxLayout.ts): distribution of a total     *)
(* size over parts with min, max, priority and share.                      *)
(*                                                                         *)
(* Numbers are modelled as exact rationals <<n, d>> in lowest terms with   *)
(* d > 0; <<1, 0>> is Infinity.  Floating-point rounding is not modelled.  *)
(***************************************************************************)
EXTENDS Integers, Sequences, FiniteSets, TLC

\* ------------------------------------------------------------------ bounds
MaxParts == 2       \* flat parts per call
MaxGroups == 2      \* keys of the parts object
MaxTotal == 8       \* totalSize ranges over 0..MaxTotal units

\* ------------------------------------------------------------- arithmetic
\* The operators below are defined through functions, so that an operand is
\* evaluated once.
Rat == Int \X Nat

Gcd[a \in Nat, b \in Nat] == IF b = 0 THEN a ELSE Gcd[b, a % b]

Abs(x) == IF x < 0 THEN -x ELSE x

Norm[n \in Int, d \in Int] ==
    IF d = 0 THEN <<(IF n > 0 THEN 1 ELSE IF n < 0 THEN -1 ELSE 0), 0>>
    ELSE LET s == IF d < 0 THEN -1 ELSE 1
             g == Gcd[Abs(n), Abs(d)]
         IN  <<(s * n) \div g, (s * d) \div g>>

Q(k) == <<k, 1>>
Zero == Q(0)
Infinity == <<1, 0>>

IsFinite(a) == a[2] # 0

Sum[a \in Rat, b \in Rat] ==
    IF ~IsFinite(a) THEN a
    ELSE IF ~IsFinite(b) THEN b
    ELSE LET g == Gcd[a[2], b[2]]
         IN  Norm[a[1] * (b[2] \div g) + b[1] * (a[2] \div g), (a[2] \div g) * b[2]]

Add(a, b) == Sum[a, b]

Neg(a) == <<-a[1], a[2]>>

Sub(a, b) == Add(a, Neg(b))

Product[a \in Rat, b \in Rat] ==
    LET g1 == Gcd[Abs(a[1]), b[2]]
        g2 == Gcd[Abs(b[1]), a[2]]
        h1 == IF g1 = 0 THEN 1 ELSE g1
        h2 == IF g2 = 0 THEN 1 ELSE g2
    IN  Norm[(a[1] \div h1) * (b[1] \div h2), (a[2] \div h2) * (b[2] \div h1)]

Mul(a, b) == Product[a, b]

Div(a, b) == Mul(a, Norm[b[2], b[1]])

Before[a \in Rat, b \in Rat] == a[1] * b[2] < b[1] * a[2]

Less(a, b) == Before[a, b]

Leq(a, b) == ~Less(b, a)

RECURSIVE SumSeq(_)
SumSeq(s) == IF s = <<>> THEN Zero ELSE Add(SumSeq(SubSeq(s, 1, Len(s) - 1)), s[Len(s)])

MathMax(a, b) == IF Less(a, b) THEN b ELSE a

MathMin(a, b) == IF Less(b, a) THEN b ELSE a

\* The tolerance of the distribution loop (0.001).
Epsilon == <<1, 1000>>

\* ----------------------------------------------------------------- inputs
Calls == {1, 2}

Keys == <<"a", "b", "c", "d">>

\* One unit of size: whole units, or a quarter of the tolerance.
Units == {Q(1), <<1, 4000>>}

NoFields == [f \in {} |-> Zero]

\* min and max of a part: none, a max, a min below its max, a min above its max.
SizeOptions(u) ==
    { NoFields,
      [max |-> Mul(Q(1), u)],
      [min |-> Mul(Q(2), u), max |-> Mul(Q(3), u)],
      [min |-> Mul(Q(2), u), max |-> Mul(Q(1), u)] }

GrowOptions ==
    { NoFields,
      [share |-> Q(0)],
      [share |-> Q(2)],
      [share |-> Q(-1)],
      [priority |-> Q(-1)],
      [priority |-> Q(2)] }

PartSpecs(u) == { s @@ g : s \in SizeOptions(u), g \in GrowOptions }

\* The parts used where the shape of the parts object varies.
GroupPartSpecs(u) ==
    { NoFields,
      [min |-> Mul(Q(2), u), max |-> Mul(Q(3), u)],
      [max |-> Mul(Q(1), u), share |-> Q(2)] }

\* A shape gives, per key, -1 for a single part or the length of an array.
Arity(a) == IF a = -1 THEN 1 ELSE a

RECURSIVE ShapeSize(_)
ShapeSize(sh) == IF sh = <<>> THEN 0 ELSE ShapeSize(Tail(sh)) + Arity(Head(sh))

SingleShapes == { [g \in 1..n |-> -1] : n \in 0..MaxParts }

GroupShapes ==
    { sh \in UNION { [1..n -> {-1} \cup (0..MaxParts)] : n \in 1..MaxGroups } :
        ShapeSize(sh) <= MaxParts }

MkParts(sh, specs) ==
    [g \in 1..Len(sh) |->
        LET off == ShapeSize(SubSeq(sh, 1, g - 1))
        IN  [key |-> Keys[g],
             isArray |-> sh[g] # -1,
             items |-> [i \in 1..Arity(sh[g]) |-> specs[off + i]]]]

\* ------------------------------------------------------------------ state
VARIABLES
    totalSize,            \* argument totalSize
    parts,                \* argument parts
    pc,                   \* position of each call
    flatParts,            \* working lists
    remainingSize,
    priorities,
    tierIdx,              \* position of the loop over priorities
    spaceToDistribute,
    iterationCount,
    distributedThisRound,
    exitedBy,             \* per priority, how its while loop was left
    result

vars == <<totalSize, parts, pc, flatParts, remainingSize, priorities, tierIdx,
          spaceToDistribute, iterationCount, distributedThisRound, exitedBy, result>>

\* ----------------------------------------------------------------- flatten
\* part.field || default
OrDefault(part, field, default) ==
    IF field \in DOMAIN part /\ part[field] # Zero THEN part[field] ELSE default

\* part.field ?? default
Nullish(part, field, default) == IF field \in DOMAIN part THEN part[field] ELSE default

FlatPart(key, part) ==
    [key |-> key,
     min |-> Nullish(part, "min", Zero),
     max |-> Nullish(part, "max", Infinity),
     priority |-> Nullish(part, "priority", Zero),
     share |-> Nullish(part, "share", Q(1)),
     allocatedSize |-> Zero]

IndexedFlatPart(key, i, part) ==
    [key |-> key,
     index |-> i,
     min |-> Nullish(part, "min", Zero),
     max |-> Nullish(part, "max", Infinity),
     priority |-> Nullish(part, "priority", Zero),
     share |-> Nullish(part, "share", Q(1)),
     allocatedSize |-> Zero]

RECURSIVE FlatItems(_, _)
FlatItems(key, items) ==
    IF items = <<>> THEN <<>>
    ELSE Append(FlatItems(key, SubSeq(items, 1, Len(items) - 1)),
                IndexedFlatPart(key, Len(items) - 1, items[Len(items)]))

FlatGroup(group) ==
    IF group.isArray
    THEN FlatItems(group.key, group.items)
    ELSE <<FlatPart(group.key, group.items[1])>>

RECURSIVE FlattenParts(_)
FlattenParts(ps) ==
    IF ps = <<>> THEN <<>>
    ELSE FlattenParts(SubSeq(ps, 1, Len(ps) - 1)) \o FlatGroup(ps[Len(ps)])

\* One working list shared by all calls.
SharedFrame(c) == 1

\* The working list of a call: a fresh array per invocation.
Frame(c) == c

\* Every part at its min.
RECURSIVE AllocateMinimum(_)
AllocateMinimum(fp) ==
    IF fp = <<>> THEN <<>>
    ELSE Append(AllocateMinimum(SubSeq(fp, 1, Len(fp) - 1)),
                [fp[Len(fp)] EXCEPT !.allocatedSize = fp[Len(fp)].min])

TotalMin(fp) == SumSeq([i \in DOMAIN fp |-> fp[i].min])

\* The sum of the bounded maxima only.
BoundedTotalMax(fp) ==
    SumSeq([i \in DOMAIN fp |-> IF IsFinite(fp[i].max) THEN fp[i].max ELSE Zero])

TotalMax(fp) == SumSeq([i \in DOMAIN fp |-> fp[i].max])

NoResult == [isNull |-> FALSE, sizes |-> <<>>]

NullResult == [isNull |-> TRUE, sizes |-> <<>>]

\* ------------------------------------------------------------- priorities
Range(s) == {s[i] : i \in DOMAIN s}

KeepAll(s) == s

RECURSIVE Dedup(_)
Dedup(s) ==
    IF s = <<>> THEN <<>>
    ELSE LET d == Dedup(SubSeq(s, 1, Len(s) - 1))
         IN  IF s[Len(s)] \in Range(d) THEN d ELSE Append(d, s[Len(s)])

\* Position of x in a list sorted with the comparator (a, b) => a - b.
InsertAsc(s, x) ==
    LET k == Cardinality({i \in DOMAIN s : ~Less(x, s[i])})
    IN  SubSeq(s, 1, k) \o <<x>> \o SubSeq(s, k + 1, Len(s))

\* Position of x in a list sorted with the comparator (a, b) => b - a.
InsertDesc(s, x) ==
    LET k == Cardinality({i \in DOMAIN s : ~Less(s[i], x)})
    IN  SubSeq(s, 1, k) \o <<x>> \o SubSeq(s, k + 1, Len(s))

RECURSIVE SortDesc(_)
SortDesc(s) ==
    IF s = <<>> THEN <<>>
    ELSE InsertDesc(SortDesc(SubSeq(s, 1, Len(s) - 1)), s[Len(s)])

Priorities(fp) == SortDesc(Dedup([i \in DOMAIN fp |-> fp[i].priority]))

\* Indices into the working list of the parts of one priority.
PartsAtPriority(fp, priority) ==
    SelectSeq([i \in DOMAIN fp |-> i], LAMBDA i : fp[i].priority = priority)

TotalShare(fp, idxs) == SumSeq([k \in DOMAIN idxs |-> fp[idxs[k]].share])

\* The shares of all parts of the priority, at their max or not.
ShareIgnoringMax(fp, idxs) == SumSeq([k \in DOMAIN idxs |-> fp[idxs[k]].share])

ActiveShare(fp, idxs) ==
    SumSeq([k \in DOMAIN idxs |->
        IF Less(fp[idxs[k]].allocatedSize, fp[idxs[k]].max) THEN fp[idxs[k]].share ELSE Zero])

MaxIterations(idxs) == Len(idxs) * 2

LoopCond(space, count, idxs) == Less(Epsilon, space) /\ count < MaxIterations(idxs)

\* The body below with the space already given out in the round taken off.
GreedyRoundPart(acc, i, space, activeShare) ==
    LET part == acc.fp[i]
    IN  IF ~Less(part.allocatedSize, part.max) THEN acc
        ELSE LET shareRatio == Div(part.share, activeShare)
                 desiredIncrease == Mul(Sub(space, acc.distributed), shareRatio)
                 maxIncrease == Sub(part.max, part.allocatedSize)
                 actualIncrease == MathMin(desiredIncrease, maxIncrease)
             IN  [fp |-> [acc.fp EXCEPT ![i].allocatedSize = Add(@, actualIncrease)],
                  distributed |-> Add(acc.distributed, actualIncrease)]

\* Body of the second for loop for one part; acc carries the working list
\* and distributedThisRound.
RoundPart(acc, i, space, activeShare) ==
    LET part == acc.fp[i]
    IN  IF ~Less(part.allocatedSize, part.max) THEN acc
        ELSE LET shareRatio == Div(part.share, activeShare)
                 desiredIncrease == Mul(space, shareRatio)
                 maxIncrease == Sub(part.max, part.allocatedSize)
                 actualIncrease == MathMin(desiredIncrease, maxIncrease)
             IN  [fp |-> [acc.fp EXCEPT ![i].allocatedSize = Add(@, actualIncrease)],
                  distributed |-> Add(acc.distributed, actualIncrease)]

RECURSIVE RoundLoop(_, _, _, _)
RoundLoop(fp, idxs, space, activeShare) ==
    IF idxs = <<>> THEN [fp |-> fp, distributed |-> Zero]
    ELSE CHOOSE r \in { RoundPart(acc, idxs[Len(idxs)], space, activeShare) :
                         acc \in {RoundLoop(fp, SubSeq(idxs, 1, Len(idxs) - 1),
                                             space, activeShare)} } : TRUE

\* ----------------------------------------------------------- build result
AnyKeyParts(fp, key) == fp

KeyParts(fp, key) == SelectSeq(fp, LAMBDA p : p.key = key)

FindSingle(fp, key) ==
    fp[CHOOSE i \in DOMAIN fp :
          /\ fp[i].key = key /\ "index" \notin DOMAIN fp[i]
          /\ \A j \in 1..(i - 1) : ~(fp[j].key = key /\ "index" \notin DOMAIN fp[j])]

ResultOf(ps, fp) ==
    [key \in {ps[g].key : g \in DOMAIN ps} |->
        LET g == CHOOSE h \in DOMAIN ps : ps[h].key = key
        IN  IF ps[g].isArray
            THEN LET sizes == KeyParts(fp, key)
                 IN  SumSeq([k \in DOMAIN sizes |-> sizes[k].allocatedSize])
            ELSE FindSingle(fp, key).allocatedSize]

\* ------------------------------------------------------ the call as a whole
RECURSIVE WhileLoop(_, _, _, _)
WhileLoop(fp, idxs, space, count) ==
    IF ~LoopCond(space, count, idxs) THEN [fp |-> fp, space |-> space]
    ELSE LET activeShare == ActiveShare(fp, idxs)
         IN  IF activeShare = Zero THEN [fp |-> fp, space |-> space]
             ELSE LET r == RoundLoop(fp, idxs, space, activeShare)
                      left == Sub(space, r.distributed)
                  IN  IF Less(r.distributed, Epsilon) THEN [fp |-> r.fp, space |-> left]
                      ELSE WhileLoop(r.fp, idxs, left, count + 1)

RECURSIVE PriorityLoop(_, _, _, _)
PriorityLoop(fp, prios, t, remaining) ==
    IF t > Len(prios) \/ Leq(remaining, Zero) THEN fp
    ELSE LET idxs == PartsAtPriority(fp, prios[t])
         IN  IF TotalShare(fp, idxs) = Zero THEN PriorityLoop(fp, prios, t + 1, remaining)
             ELSE LET w == WhileLoop(fp, idxs, remaining, 0)
                  IN  PriorityLoop(w.fp, prios, t + 1, w.space)

Distribute(total, ps) ==
    LET fp == FlattenParts(ps)
        allocated == AllocateMinimum(fp)
    IN  IF Less(total, TotalMin(fp)) \/ Less(TotalMax(fp), total) THEN NullResult
        ELSE [isNull |-> FALSE,
              sizes |-> ResultOf(ps, PriorityLoop(allocated, Priorities(allocated), 1,
                                                  Sub(total, TotalMin(fp))))]

\* -------------------------------------------------------------- behaviour
Arguments(shapes, Specs(_)) ==
    \E u \in Units : \E k \in 0..MaxTotal : \E sh \in shapes :
       \E specs \in [1..ShapeSize(sh) -> Specs(u)] :
          /\ totalSize = Mul(Q(k), u)
          /\ parts = MkParts(sh, specs)

Locals(started) ==
    /\ pc = [c \in Calls |-> IF c \in started THEN "flatten" ELSE "idle"]
    /\ flatParts = [c \in Calls |-> <<>>]
    /\ remainingSize = [c \in Calls |-> Zero]
    /\ priorities = [c \in Calls |-> <<>>]
    /\ tierIdx = [c \in Calls |-> 0]
    /\ spaceToDistribute = [c \in Calls |-> Zero]
    /\ iterationCount = [c \in Calls |-> 0]
    /\ distributedThisRound = [c \in Calls |-> Zero]
    /\ exitedBy = [c \in Calls |-> <<>>]
    /\ result = [c \in Calls |-> NoResult]

InitWith(started, shapes, Specs(_)) == Arguments(shapes, Specs) /\ Locals(started)

Init == InitWith({1}, SingleShapes, PartSpecs)

InitGroups == InitWith({1}, GroupShapes, GroupPartSpecs)

InitConc == InitWith(Calls, GroupShapes, GroupPartSpecs)

Flatten(c) ==
    /\ pc[c] = "flatten"
    /\ flatParts' = [flatParts EXCEPT ![Frame(c)] = FlattenParts(parts)]
    /\ pc' = [pc EXCEPT ![c] = "checkMin"]
    /\ UNCHANGED <<totalSize, parts, remainingSize, priorities, tierIdx, spaceToDistribute,
                   iterationCount, distributedThisRound, exitedBy, result>>

CheckTotalMin(c) ==
    /\ pc[c] = "checkMin"
    /\ IF Less(totalSize, TotalMin(flatParts[Frame(c)]))
       THEN /\ pc' = [pc EXCEPT ![c] = "done"]
            /\ result' = [result EXCEPT ![c] = NullResult]
       ELSE /\ pc' = [pc EXCEPT ![c] = "checkMax"]
            /\ UNCHANGED result
    /\ UNCHANGED <<totalSize, parts, flatParts, remainingSize, priorities, tierIdx,
                   spaceToDistribute, iterationCount, distributedThisRound, exitedBy>>

CheckTotalMax(c) ==
    /\ pc[c] = "checkMax"
    /\ IF Less(TotalMax(flatParts[Frame(c)]), totalSize)
       THEN /\ pc' = [pc EXCEPT ![c] = "done"]
            /\ result' = [result EXCEPT ![c] = NullResult]
       ELSE /\ pc' = [pc EXCEPT ![c] = "allocateMin"]
            /\ UNCHANGED result
    /\ UNCHANGED <<totalSize, parts, flatParts, remainingSize, priorities, tierIdx,
                   spaceToDistribute, iterationCount, distributedThisRound, exitedBy>>

AllocateMin(c) ==
    /\ pc[c] = "allocateMin"
    /\ LET fp == flatParts[Frame(c)]
           allocated == AllocateMinimum(fp)
       IN  /\ flatParts' = [flatParts EXCEPT ![Frame(c)] = allocated]
           /\ remainingSize' = [remainingSize EXCEPT ![c] = Sub(totalSize, TotalMin(fp))]
           /\ priorities' = [priorities EXCEPT ![c] = Priorities(allocated)]
           /\ exitedBy' = [exitedBy EXCEPT ![c] =
                               [t \in DOMAIN Priorities(allocated) |-> "none"]]
    /\ tierIdx' = [tierIdx EXCEPT ![c] = 1]
    /\ pc' = [pc EXCEPT ![c] = "tier"]
    /\ UNCHANGED <<totalSize, parts, spaceToDistribute, iterationCount,
                   distributedThisRound, result>>

\* Head of the loop over priorities, up to the while loop.
TierHead(c) ==
    /\ pc[c] = "tier"
    /\ IF tierIdx[c] > Len(priorities[c]) \/ Leq(remainingSize[c], Zero)
       THEN /\ pc' = [pc EXCEPT ![c] = "build"]
            /\ UNCHANGED <<tierIdx, spaceToDistribute, iterationCount,
                           distributedThisRound, exitedBy>>
       ELSE LET idxs == PartsAtPriority(flatParts[Frame(c)], priorities[c][tierIdx[c]])
            IN  IF TotalShare(flatParts[Frame(c)], idxs) = Zero
                THEN /\ tierIdx' = [tierIdx EXCEPT ![c] = @ + 1]
                     /\ UNCHANGED <<pc, spaceToDistribute, iterationCount,
                                    distributedThisRound, exitedBy>>
                ELSE /\ spaceToDistribute' = [spaceToDistribute EXCEPT ![c] = remainingSize[c]]
                     /\ iterationCount' = [iterationCount EXCEPT ![c] = 0]
                     /\ distributedThisRound' = [distributedThisRound EXCEPT ![c] = Zero]
                     /\ pc' = [pc EXCEPT ![c] = "while"]
                     /\ UNCHANGED <<tierIdx, exitedBy>>
    /\ UNCHANGED <<totalSize, parts, flatParts, remainingSize, priorities, result>>

\* One iteration of the while loop.
Round(c) ==
    /\ pc[c] = "while"
    /\ LET fp == flatParts[Frame(c)]
           idxs == PartsAtPriority(fp, priorities[c][tierIdx[c]])
           activeShare == ActiveShare(fp, idxs)
           r == RoundLoop(fp, idxs, spaceToDistribute[c], activeShare)
       IN  /\ LoopCond(spaceToDistribute[c], iterationCount[c], idxs)
           /\ iterationCount' = [iterationCount EXCEPT ![c] = @ + 1]
           /\ IF activeShare = Zero
              THEN /\ distributedThisRound' = [distributedThisRound EXCEPT ![c] = Zero]
                   /\ exitedBy' = [exitedBy EXCEPT ![c][tierIdx[c]] = "noActiveShare"]
                   /\ pc' = [pc EXCEPT ![c] = "endTier"]
                   /\ UNCHANGED <<flatParts, spaceToDistribute>>
              ELSE /\ flatParts' = [flatParts EXCEPT ![Frame(c)] = r.fp]
                   /\ distributedThisRound' = [distributedThisRound EXCEPT ![c] = r.distributed]
                   /\ spaceToDistribute' =
                         [spaceToDistribute EXCEPT ![c] = Sub(@, r.distributed)]
                   /\ IF Less(r.distributed, Epsilon)
                      THEN /\ exitedBy' = [exitedBy EXCEPT ![c][tierIdx[c]] = "negligible"]
                           /\ pc' = [pc EXCEPT ![c] = "endTier"]
                      ELSE UNCHANGED <<exitedBy, pc>>
    /\ UNCHANGED <<totalSize, parts, remainingSize, priorities, tierIdx, result>>

\* The while condition fails.
WhileExit(c) ==
    /\ pc[c] = "while"
    /\ ~LoopCond(spaceToDistribute[c], iterationCount[c],
                 PartsAtPriority(flatParts[Frame(c)], priorities[c][tierIdx[c]]))
    /\ exitedBy' = [exitedBy EXCEPT ![c][tierIdx[c]] = "condition"]
    /\ pc' = [pc EXCEPT ![c] = "endTier"]
    /\ UNCHANGED <<totalSize, parts, flatParts, remainingSize, priorities, tierIdx,
                   spaceToDistribute, iterationCount, distributedThisRound, result>>

\* The end of a priority without line 155: remainingSize keeps the budget
\* that entered the priority.
EndTierKeepingBudget(c) ==
    /\ pc[c] = "endTier"
    /\ tierIdx' = [tierIdx EXCEPT ![c] = @ + 1]
    /\ pc' = [pc EXCEPT ![c] = "tier"]
    /\ UNCHANGED <<totalSize, parts, flatParts, remainingSize, priorities, spaceToDistribute,
                   iterationCount, distributedThisRound, exitedBy, result>>

EndTier(c) ==
    /\ pc[c] = "endTier"
    /\ remainingSize' = [remainingSize EXCEPT ![c] = spaceToDistribute[c]]
    /\ tierIdx' = [tierIdx EXCEPT ![c] = @ + 1]
    /\ pc' = [pc EXCEPT ![c] = "tier"]
    /\ UNCHANGED <<totalSize, parts, flatParts, priorities, spaceToDistribute,
                   iterationCount, distributedThisRound, exitedBy, result>>

BuildResult(c) ==
    /\ pc[c] = "build"
    /\ result' = [result EXCEPT ![c] =
                    [isNull |-> FALSE, sizes |-> ResultOf(parts, flatParts[Frame(c)])]]
    /\ pc' = [pc EXCEPT ![c] = "done"]
    /\ UNCHANGED <<totalSize, parts, flatParts, remainingSize, priorities, tierIdx,
                   spaceToDistribute, iterationCount, distributedThisRound, exitedBy>>

Step(c) ==
    \/ Flatten(c)
    \/ CheckTotalMin(c)
    \/ CheckTotalMax(c)
    \/ AllocateMin(c)
    \/ TierHead(c)
    \/ Round(c)
    \/ WhileExit(c)
    \/ EndTier(c)
    \/ BuildResult(c)

Next == \E c \in Calls : Step(c)

Spec == Init /\ [][Next]_vars

SpecGroups == InitGroups /\ [][Next]_vars

SpecConc == InitConc /\ [][Next]_vars

\* The parts of the calls whose return is followed: no field, a max, a max
\* in a higher priority, a negative share, a zero share.
ReturnPartSpecs(u) ==
    { NoFields,
      [max |-> Mul(Q(1), u)],
      [max |-> Mul(Q(1), u), priority |-> Q(2)],
      [share |-> Q(-1)],
      [share |-> Q(0)] }

\* The caller has not passed its arguments yet.
InitUncalled == totalSize = Zero /\ parts = <<>> /\ Locals({})

\* The call of the function, with its arguments.
Invoke ==
    /\ pc[1] = "idle"
    /\ \E u \in Units : \E k \in {0, 1, MaxTotal} : \E sh \in SingleShapes :
          \E specs \in [1..ShapeSize(sh) -> ReturnPartSpecs(u)] :
             /\ totalSize' = Mul(Q(k), u)
             /\ parts' = MkParts(sh, specs)
    /\ pc' = [pc EXCEPT ![1] = "flatten"]
    /\ UNCHANGED <<flatParts, remainingSize, priorities, tierIdx, spaceToDistribute,
                   iterationCount, distributedThisRound, exitedBy, result>>

NextCall == Invoke \/ Step(1)

\* A call that has begun runs to its return.
FairSpec == InitUncalled /\ [][NextCall]_vars /\ WF_vars(Step(1))

\* ------------------------------------------------------ terms of the claims
\* The part specifications of the input in iteration order, one per flat part.
RECURSIVE InputItems(_)
InputItems(ps) ==
    IF ps = <<>> THEN <<>>
    ELSE InputItems(SubSeq(ps, 1, Len(ps) - 1)) \o ps[Len(ps)].items

InputMin(item) == IF "min" \in DOMAIN item THEN item.min ELSE Zero

InputShare(item) == IF "share" \in DOMAIN item THEN item.share ELSE Q(1)

InputTotalMin == SumSeq([i \in DOMAIN InputItems(parts) |-> InputMin(InputItems(parts)[i])])

InputUnbounded == \E i \in DOMAIN InputItems(parts) : "max" \notin DOMAIN InputItems(parts)[i]

InputBoundedMax ==
    SumSeq([i \in DOMAIN InputItems(parts) |->
        IF "max" \in DOMAIN InputItems(parts)[i] THEN InputItems(parts)[i].max ELSE Zero])

MinExceedsTotal == Less(totalSize, InputTotalMin)

MaxBelowTotal == ~InputUnbounded /\ Less(InputBoundedMax, totalSize)

FeasibleInput == ~MinExceedsTotal /\ ~MaxBelowTotal

NonNegativeShares ==
    \A i \in DOMAIN InputItems(parts) : Leq(Zero, InputShare(InputItems(parts)[i]))

AbsQ(a) == IF a[1] < 0 THEN Neg(a) ELSE a

\* The minimum allocation of call c has been made and its working list is live.
Allocated(c) ==
    \/ pc[c] \in {"tier", "while", "endTier", "build"}
    \/ pc[c] = "done" /\ ~result[c].isNull

Returned(c) == pc[c] = "done"

ReturnedSizes(c) == pc[c] = "done" /\ ~result[c].isNull

ResultSum(c) == SumSeq([g \in DOMAIN parts |-> result[c].sizes[parts[g].key]])

MinLeqMax(fp) == \A i \in DOMAIN fp : Leq(fp[i].min, fp[i].max)

WithinBounds(fp) ==
    \A i \in DOMAIN fp :
        Leq(fp[i].min, fp[i].allocatedSize) /\ Leq(fp[i].allocatedSize, fp[i].max)

\* ------------------------------------------------------------------ claims

\* C1: for every feasible input, the call returns a mapping whose values sum
\* to totalSize within the tolerance, whatever the priorities and shares.
C1_SumIsTotalSize ==
    (Returned(1) /\ FeasibleInput) =>
        /\ ~result[1].isNull
        /\ Leq(AbsQ(Sub(ResultSum(1), totalSize)), Epsilon)

\* C2 as stated: for every feasible input with min <= max for each part, after
\* the minimum allocation and after every round, min <= allocated <= max.
C2_WithinBoundsAnyShare ==
    (Allocated(1) /\ MinLeqMax(flatParts[1])) => WithinBounds(flatParts[1])

\* C2: for every feasible input with min <= max and share >= 0 for each part,
\* after the minimum allocation and after every round every flat part has
\* min <= allocated <= max, and a part with min = max stays at that value.
C2_WithinBounds ==
    (Allocated(1) /\ MinLeqMax(flatParts[1]) /\ NonNegativeShares) =>
        /\ WithinBounds(flatParts[1])
        /\ \A i \in DOMAIN flatParts[1] :
              flatParts[1][i].min = flatParts[1][i].max =>
                  flatParts[1][i].allocatedSize = flatParts[1][i].min

\* A round has clamped one part at its max while another part of the same
\* priority grew and stays below its max.
C2_Witness ==
    /\ pc[1] = "while" /\ iterationCount[1] >= 1
    /\ MinLeqMax(flatParts[1]) /\ NonNegativeShares
    /\ \E i, j \in DOMAIN flatParts[1] :
          /\ flatParts[1][i].priority = flatParts[1][j].priority
          /\ Less(flatParts[1][i].min, flatParts[1][i].allocatedSize)
          /\ flatParts[1][i].allocatedSize = flatParts[1][i].max
          /\ Less(flatParts[1][j].min, flatParts[1][j].allocatedSize)
          /\ Less(flatParts[1][j].allocatedSize, flatParts[1][j].max)

\* C3: the call returns null exactly when the sum of the minima exceeds
\* totalSize or the sum of the maxima is below it (never with an unbounded
\* max); a null return carries no sizes and any other return has every key.
C3_NullIffInfeasible ==
    Returned(1) =>
        /\ result[1].isNull <=> (MinExceedsTotal \/ MaxBelowTotal)
        /\ result[1].isNull => result[1].sizes = <<>>
        /\ ~result[1].isNull => DOMAIN result[1].sizes = {parts[g].key : g \in DOMAIN parts}

\* A null return because the maxima, all bounded, sum to less than totalSize.
C3_Witness == Returned(1) /\ result[1].isNull /\ MaxBelowTotal /\ ~MinExceedsTotal

TierIndex(c, priority) == CHOOSE t \in DOMAIN priorities[c] : priorities[c][t] = priority

C5_ZeroShareStaysAtMin ==
    Allocated(1) =>
        \A i \in DOMAIN flatParts[1] :
            InputShare(InputItems(parts)[i]) = Zero =>
                flatParts[1][i].allocatedSize = flatParts[1][i].min

\* The call returned leaving space undistributed, with a part of share 0 below
\* its max beside a part of the same priority that grew.
C5_Witness ==
    /\ ReturnedSizes(1) /\ Less(Epsilon, remainingSize[1])
    /\ \E i, j \in DOMAIN flatParts[1] :
          /\ InputShare(InputItems(parts)[i]) = Zero
          /\ Less(flatParts[1][i].allocatedSize, flatParts[1][i].max)
          /\ flatParts[1][j].priority = flatParts[1][i].priority
          /\ Less(flatParts[1][j].min, flatParts[1][j].allocatedSize)

SameTierAndShare(p, q) == p.priority = q.priority /\ p.share = q.share

EqualShareOfHeadroom ==
    Allocated(1) =>
        \A i, j \in DOMAIN flatParts[1] :
            ( /\ SameTierAndShare(flatParts[1][i], flatParts[1][j])
              /\ Sub(flatParts[1][i].max, flatParts[1][i].min)
                    = Sub(flatParts[1][j].max, flatParts[1][j].min) )
            => Sub(flatParts[1][i].allocatedSize, flatParts[1][i].min)
                  = Sub(flatParts[1][j].allocatedSize, flatParts[1][j].min)

EqualIncreaseInRound ==
    (pc[1] = "while" /\ pc'[1] \in {"while", "endTier"}) =>
        \A i, j \in DOMAIN flatParts[1] :
            ( /\ SameTierAndShare(flatParts[1][i], flatParts[1][j])
              /\ Sub(flatParts[1][i].max, flatParts[1][i].allocatedSize)
                    = Sub(flatParts[1][j].max, flatParts[1][j].allocatedSize) )
            => Sub(flatParts'[1][i].allocatedSize, flatParts[1][i].allocatedSize)
                  = Sub(flatParts'[1][j].allocatedSize, flatParts[1][j].allocatedSize)

\* C6: two parts of one priority with equal share and equal headroom
\* (max - allocated) at the start of a round receive equal increases in that
\* round, whatever their positions in the working list; and two parts of one
\* priority with equal share and equal max - min have equal allocated - min.
C6_EqualIncrease == [][EqualIncreaseInRound]_vars /\ []EqualShareOfHeadroom

\* A round has raised two parts of equal share and headroom above their min.
C6_Witness ==
    /\ pc[1] \in {"while", "endTier"} /\ iterationCount[1] >= 1
    /\ \E i, j \in DOMAIN flatParts[1] :
          /\ i < j
          /\ SameTierAndShare(flatParts[1][i], flatParts[1][j])
          /\ flatParts[1][i].max = flatParts[1][j].max
          /\ flatParts[1][i].min = flatParts[1][j].min
          /\ Less(flatParts[1][i].min, flatParts[1][i].allocatedSize)
          /\ flatParts[1][i].allocatedSize = flatParts[1][j].allocatedSize

\* Number of flat parts that precede those of the g-th key.
GroupOffset(ps, g) == Len(InputItems(SubSeq(ps, 1, g - 1)))

\* C7: a returned mapping has exactly the keys of the input; the value of a
\* single part is its final allocated, and the value of an array is the sum of
\* the final allocated of its members (0 for an empty array).
C7_ResultPerKey ==
    ReturnedSizes(1) =>
        /\ DOMAIN result[1].sizes = {parts[g].key : g \in DOMAIN parts}
        /\ \A g \in DOMAIN parts :
              LET off == GroupOffset(parts, g)
                  n == Len(parts[g].items)
              IN  result[1].sizes[parts[g].key] =
                    IF parts[g].isArray
                    THEN SumSeq([k \in 1..n |-> flatParts[1][off + k].allocatedSize])
                    ELSE flatParts[1][off + 1].allocatedSize

\* A return for an empty array beside an array of two members that ended with
\* different sizes.
C7_Witness ==
    /\ ReturnedSizes(1)
    /\ \E g, h \in DOMAIN parts :
          /\ parts[g].isArray /\ Len(parts[g].items) = 0
          /\ result[1].sizes[parts[g].key] = Zero
          /\ parts[h].isArray /\ Len(parts[h].items) = 2
          /\ LET off == GroupOffset(parts, h)
             IN  /\ Less(Zero, flatParts[1][off + 1].allocatedSize)
                 /\ Less(flatParts[1][off + 1].allocatedSize,
                         flatParts[1][off + 2].allocatedSize)

\* C8: a call never modifies its arguments, and with the steps of two calls
\* on the same arguments interleaved in any way each call returns what the
\* function returns for those arguments when run alone.
C8_CallsDoNotInterfere ==
    /\ [][parts' = parts /\ totalSize' = totalSize]_vars
    /\ [](\A c \in Calls : Returned(c) => result[c] = Distribute(totalSize, parts))

\* One call has returned sizes while the other is between two rounds, on a
\* working list of its own.
C8_Witness ==
    /\ ReturnedSizes(1) /\ Less(Zero, ResultSum(1))
    /\ pc[2] = "while" /\ iterationCount[2] >= 1
    /\ flatParts[2] # flatParts[1]

TierParts(c) == PartsAtPriority(flatParts[c], priorities[c][tierIdx[c]])

DistinctPriorities(fp) == {fp[i].priority : i \in DOMAIN fp}

\* C10: every call that has begun returns; the loop of a priority makes at
\* most twice as many rounds as the priority has parts, and the loop over the
\* priorities makes one pass over the distinct priorities.
C10_Terminates ==
    /\ [](pc[1] \in {"while", "endTier"} => iterationCount[1] <= 2 * Len(TierParts(1)))
    /\ [](tierIdx[1] <= Cardinality(DistinctPriorities(flatParts[1])) + 1)
    /\ (pc[1] = "flatten") ~> (pc[1] = "done")

\* The loop of a priority has ended after exactly twice as many rounds as
\* the priority has parts.
C10_Witness ==
    /\ pc[1] = "endTier"
    /\ iterationCount[1] = 2 * Len(TierParts(1))

PositiveShares ==
    \A i \in DOMAIN InputItems(parts) : Less(Zero, InputShare(InputItems(parts)[i]))

\* What is left of totalSize once every part has its min.
InputBudget == Sub(totalSize, InputTotalMin)

\* C11: the tolerance follows the size of totalSize, so a feasible input with
\* min <= max and share > 0 for each part and a positive budget, however
\* small, has some of that budget distributed: the returned sizes sum to more
\* than the sum of the minima.
C11_SmallBudgetDistributed ==
    ( /\ ReturnedSizes(1) /\ FeasibleInput /\ PositiveShares
      /\ MinLeqMax(flatParts[1]) /\ Less(Zero, InputBudget) ) =>
        Less(InputTotalMin, ResultSum(1))

\* The budget still to distribute: spaceToDistribute inside the loop of a
\* priority, remainingSize outside it.
Budget(c) == IF pc[c] \in {"while", "endTier"} THEN spaceToDistribute[c] ELSE remainingSize[c]

AllocatedSum(c) == SumSeq([i \in DOMAIN flatParts[c] |-> flatParts[c][i].allocatedSize])

BudgetConserved ==
    (Allocated(1) /\ NonNegativeShares) =>
        /\ Add(AllocatedSum(1), Budget(1)) = totalSize
        /\ Leq(Zero, Budget(1))

BudgetNeverGrows ==
    (Allocated(1) /\ Allocated(1)' /\ NonNegativeShares) => Leq(Budget(1)', Budget(1))

\* C12: for every feasible input with share >= 0 for each part, after the
\* minimum allocation and after every round and every priority, the sum of
\* allocatedSize plus the budget still to distribute equals totalSize, and
\* that budget is never negative and never increases.
C12_BudgetConservation == []BudgetConserved /\ [][BudgetNeverGrows]_vars

\* A round has handed out part of the budget and left part of it.
C12_Witness ==
    /\ pc[1] = "while" /\ NonNegativeShares
    /\ iterationCount[1] >= 1
    /\ Less(Zero, spaceToDistribute[1])
    /\ Less(spaceToDistribute[1], remainingSize[1])
    /\ Less(InputTotalMin, AllocatedSum(1))

\* C13: on a non-null result, if the returned sizes sum to less than
\* totalSize by more than the tolerance, every part with share > 0 is at its
\* max (allocated >= max): only parts of share 0 stay below their max while
\* budget is left.
C13_WorkConservation ==
    (ReturnedSizes(1) /\ Less(Epsilon, Sub(totalSize, ResultSum(1)))) =>
        \A i \in DOMAIN flatParts[1] :
            Less(Zero, flatParts[1][i].share) =>
                ~Less(flatParts[1][i].allocatedSize, flatParts[1][i].max)

====
